---- MODULE Spec2Model ----
(***************************************************************************)
(* MandiusLinkBot: the Telegram bot of src/statusBot.js with its session   *)
(* store (src/utils/sessions.js), report composer and status checker.      *)
(*                                                                         *)
(* A JavaScript string is modelled as the sequence of its characters, each *)
(* a one-character TLA+ string, so that startsWith, substring, trim and    *)
(* the handlers' regular expressions are computed character by character.  *)
(* Line terminators do not occur in the modelled texts, so the regular     *)
(* expression atom "." matches every modelled character.                   *)
(***************************************************************************)
EXTENDS Bags, FiniteSets, Integers, Sequences, TLC

(***************************************************************************)
(* Bounds of the model.                                                    *)
(***************************************************************************)
MaxInFlight == 2
MaxNameLen == 2

(***************************************************************************)
(* String primitives (ECMAScript String.prototype).                        *)
(***************************************************************************)
LowerLetters ==
  << "a","b","c","d","e","f","g","h","i","j","k","l","m",
     "n","o","p","q","r","s","t","u","v","w","x","y","z" >>
UpperLetters ==
  << "A","B","C","D","E","F","G","H","I","J","K","L","M",
     "N","O","P","Q","R","S","T","U","V","W","X","Y","Z" >>
Digits == << "0","1","2","3","4","5","6","7","8","9" >>

Range(s) == { s[i] : i \in DOMAIN s }

\* the character class [a-zA-Z0-9_]
WordChars == Range(LowerLetters) \cup Range(UpperLetters) \cup Range(Digits) \cup {"_"}

\* the character class \d
DigitChars == Range(Digits)

startsWith(s, p) == Len(p) <= Len(s) /\ SubSeq(s, 1, Len(p)) = p

\* s.substring(n)
substring(s, n) == SubSeq(s, n + 1, Len(s))

\* s.indexOf(p): the 0-based index of the first occurrence, or -1
indexOf(s, p) ==
  LET hits == { i \in 0..(Len(s) - Len(p)) : SubSeq(s, i + 1, i + Len(p)) = p }
  IN  IF hits = {} THEN -1 ELSE CHOOSE i \in hits : \A j \in hits : i <= j

\* s.lastIndexOf(p)
lastIndexOf(s, p) ==
  LET hits == { i \in 0..(Len(s) - Len(p)) : SubSeq(s, i + 1, i + Len(p)) = p }
  IN  IF hits = {} THEN -1 ELSE CHOOSE i \in hits : \A j \in hits : i >= j

includes(s, p) == indexOf(s, p) >= 0

\* s.trim(): the modelled texts hold no white space other than the blank
trim(s) ==
  LET solid == { i \in DOMAIN s : s[i] # " " }
  IN  IF solid = {} THEN << >>
      ELSE SubSeq(s, CHOOSE i \in solid : \A j \in solid : i <= j,
                     CHOOSE i \in solid : \A j \in solid : i >= j)

\* the lower-case letter of each upper-case letter
lowerOf == [ c \in Range(UpperLetters) |->
             LowerLetters[CHOOSE i \in DOMAIN UpperLetters : UpperLetters[i] = c] ]

lowerChar(c) == IF c \in DOMAIN lowerOf THEN lowerOf[c] ELSE c

toLowerCase(s) == [ i \in DOMAIN s |-> lowerChar(s[i]) ]

RECURSIVE split(_, _)
\* s.split(sep) for a one-character separator
split(s, sep) ==
  LET i == indexOf(s, <<sep>>)
  IN  IF i < 0 THEN << s >>
      ELSE << SubSeq(s, 1, i) >> \o split(substring(s, i + 1), sep)

RECURSIVE join(_, _)
\* parts.join(sep)
join(parts, sep) ==
  IF parts = << >> THEN << >>
  ELSE IF Len(parts) = 1 THEN parts[1]
  ELSE parts[1] \o <<sep>> \o join(Tail(parts), sep)

\* a JavaScript value is falsy when it is undefined or the empty string;
\* both are modelled by the empty sequence
Falsy(s) == s = << >>


(***************************************************************************)
(* Literals of the handlers.                                               *)
(***************************************************************************)
TME == << "h","t","t","p","s",":","/","/","t",".","m","e","/" >>
TME_HOST == << "t",".","m","e","/" >>
AT == << "@" >>
SLASH == << "/" >>
CMD_START == << "/","s","t","a","r","t" >>
CMD_CHECK_SP == << "/","c","h","e","c","k"," " >>
CMD_REPORT == << "/","r","e","p","o","r","t" >>
CMD_CANCEL == << "/","c","a","n","c","e","l" >>
greetings ==
  { << "h","i" >>, << "h","e","l","l","o" >>, << "h","e","y" >>,
    << "h","i","i" >>, << "h","e","l","o" >>, << "h","o","l","a" >> }

\* text.match(/^[a-zA-Z0-9_]+$/)
matchesWord(s) == Len(s) > 0 /\ \A i \in DOMAIN s : s[i] \in WordChars

\* /^-?\d+$/.test(s)
matchesInteger(s) ==
  LET d == IF startsWith(s, << "-" >>) THEN substring(s, 1) ELSE s
  IN  Len(d) > 0 /\ \A i \in DOMAIN d : d[i] \in DigitChars

(***************************************************************************)
(* Session store: src/utils/sessions.js.  The Map is a function whose      *)
(* domain is the set of keys present; a session object is a record whose   *)
(* domain is the set of its own properties.                                *)
(***************************************************************************)
\* a start that merges into the prior session instead of replacing it
startSession_merges(sessions, userId) ==
  [ u \in (DOMAIN sessions) \cup {userId} |->
      IF u = userId
      THEN [ k \in (IF u \in DOMAIN sessions THEN DOMAIN sessions[u] ELSE {}) \cup {"step"} |->
               IF k = "step" THEN "awaitingLink" ELSE sessions[u][k] ]
      ELSE sessions[u] ]

startSession(sessions, userId) ==
  [ u \in (DOMAIN sessions) \cup {userId} |->
      IF u = userId THEN [ step |-> "awaitingLink" ] ELSE sessions[u] ]

\* a merge in which the properties the session already has win
spread_keepsExisting(session, data) ==
  [ k \in (DOMAIN session) \cup (DOMAIN data) |->
      IF k \in DOMAIN session THEN session[k] ELSE data[k] ]

\* { ...session, ...data }
spread(session, data) ==
  [ k \in (DOMAIN session) \cup (DOMAIN data) |->
      IF k \in DOMAIN data THEN data[k] ELSE session[k] ]

\* an update without the existence test
updateSession_creates(sessions, userId, data) ==
  [ u \in (DOMAIN sessions) \cup {userId} |->
      IF u = userId
      THEN spread(IF u \in DOMAIN sessions THEN sessions[u] ELSE << >>, data)
      ELSE sessions[u] ]

updateSession(sessions, userId, data) ==
  IF userId \in DOMAIN sessions
  THEN [ sessions EXCEPT ![userId] = spread(@, data) ]
  ELSE sessions

\* getSession(userId) is truthy
hasSession(sessions, userId) == userId \in DOMAIN sessions

\* an end that removes only a session whose reason was collected
endSession_keepsUnfinished(sessions, userId) ==
  [ u \in { v \in DOMAIN sessions : v # userId \/ "reason" \notin DOMAIN sessions[v] } |->
      sessions[u] ]

\* an end that clears the whole Map
endSession_clearsAll(sessions, userId) == << >>

endSession(sessions, userId) ==
  [ u \in (DOMAIN sessions) \ {userId} |-> sessions[u] ]

(***************************************************************************)
(* Report composer: src/utils/reporter.js.  The fixed parts of the         *)
(* template are single elements of the composed text; the lines of this    *)
(* template are indented by two blanks.                                    *)
(***************************************************************************)
generateReport(session) ==
  << "Report Sent! Details:", "  - Chat ID: " >> \o session.chatId
    \o << "  - Link: " >> \o session.link
    \o << "  - Reason: " >> \o session.reason

(***************************************************************************)
(* Status checker imported by statusBot.js: src/utils/checker.js.          *)
(***************************************************************************)
checkChatStatus(link) ==
  IF includes(link, TME_HOST)
  THEN << "The link [" >> \o link \o << "] appears to be working." >>
  ELSE << "Invalid link format." >>

(***************************************************************************)
(* Handler context.  One inbound update is dispatched to every registered  *)
(* callback in one synchronous turn; each callback is a transformer of     *)
(*   sessions : the session Map                                            *)
(*   inflight : bag of async continuations suspended at their await        *)
(*   out      : the bot.sendMessage calls made, in order                   *)
(*   composed : the arguments generateReport was called with, in order     *)
(*   fired    : the callbacks that acted on the update                     *)
(***************************************************************************)
\* bot.sendMessage(...) whose promise is dropped or returned by the callback
sendMessage(m, chatId, tag, body) ==
  [ m EXCEPT !.out = Append(@, [ to |-> chatId, tag |-> tag, body |-> body,
                                 awaited |-> FALSE ]) ]

\* await bot.sendMessage(...) inside a try block
awaitSendMessage(m, chatId, tag, body) ==
  [ m EXCEPT !.out = Append(@, [ to |-> chatId, tag |-> tag, body |-> body,
                                 awaited |-> TRUE ]) ]

acts(m, handler) == [ m EXCEPT !.fired = @ \cup {handler} ]

suspend(m, k) == [ m EXCEPT !.inflight = @ (+) SetToBag({k}) ]

reporterNameOf(msg) ==
  IF Falsy(msg.first_name) THEN << "S","o","m","e","o","n","e" >> ELSE msg.first_name

\* bot.onText(/\/start/, ...)
onText_start(m, msg) ==
  IF includes(msg.text, CMD_START)
  THEN sendMessage(acts(m, "start"), msg.chat, "welcome", << >>)
  ELSE m

\* bot.on('message', ...): greetings
onMessage_greetings(m, msg) ==
  LET text == toLowerCase(msg.text)
  IN  IF Falsy(text) THEN m
      ELSE IF text \in greetings
      THEN sendMessage(acts(m, "greetings"), msg.chat, "hello", << >>)
      ELSE m

\* mutant of checkTargetLink: the sigil form is passed on without normalisation
checkTargetLink_rawSigil(input) ==
  IF startsWith(input, TME) THEN input
  ELSE IF startsWith(input, AT) THEN input
  ELSE IF matchesWord(input) THEN TME \o input
  ELSE << >>

\* the link/username normalisation of the /check handler of statusBot.js;
\* << >> stands for the rejected input (targetLink left unset)
checkTargetLink(input) ==
  IF startsWith(input, TME) THEN input
  ELSE IF startsWith(input, AT) THEN TME \o substring(input, 1)
  ELSE IF matchesWord(input) THEN TME \o input
  ELSE << >>

\* /\/check (.+)/.exec(text)[1], or << >> when the expression does not match
execCheck(text) ==
  LET at == { i \in 0..(Len(text) - Len(CMD_CHECK_SP) - 1) :
                SubSeq(text, i + 1, i + Len(CMD_CHECK_SP)) = CMD_CHECK_SP }
  IN  IF at = {} THEN << >>
      ELSE substring(text, (CHOOSE i \in at : \A j \in at : i <= j) + Len(CMD_CHECK_SP))

\* bot.onText(/\/check (.+)/, ...)
onText_check(m, msg) ==
  IF execCheck(msg.text) = << >> THEN m
  ELSE
    LET input == trim(execCheck(msg.text))
        targetLink == checkTargetLink(input)
    IN  IF targetLink = << >>
        THEN sendMessage(acts(m, "check"), msg.chat, "check_invalid", << >>)
        ELSE suspend(acts(m, "check"),
                     [ kind |-> "check", userId |-> msg.from, chatId |-> msg.chat,
                       arg |-> targetLink ])

CMD_ADD3_SP == << "/","a","d","d","3"," " >>

\* /\/add3 (.+)/.exec(text)[1], or << >> when the expression does not match
execAdd3(text) ==
  LET at == { i \in 0..(Len(text) - Len(CMD_ADD3_SP) - 1) :
                SubSeq(text, i + 1, i + Len(CMD_ADD3_SP)) = CMD_ADD3_SP }
  IN  IF at = {} THEN << >>
      ELSE substring(text, (CHOOSE i \in at : \A j \in at : i <= j) + Len(CMD_ADD3_SP))

\* let firebaseAuthReady = false: initializeFirebase() returns before it sets
\* the flag, because the program defines no __firebase_config
firebaseAuthReady == FALSE

\* bot.onText(/\/add3 (.+)/, ...): with the database connection never ready
\* the callback ends at its first reply
onText_add3(m, msg) ==
  IF execAdd3(msg.text) = << >> THEN m
  ELSE IF ~firebaseAuthReady
  THEN sendMessage(acts(m, "add3"), msg.chat, "add3_initializing", << >>)
  ELSE m

VARIABLES
  sessions,                 \* the Map of src/utils/sessions.js
  DEFAULT_CHANNEL_CHAT_ID,  \* process.env.TELEGRAM_CHANNEL_CHAT_ID; << >> when unset
  inflight,                 \* bag of handler continuations suspended at an await
  last                      \* what the latest turn of the event loop did

vars == << sessions, DEFAULT_CHANNEL_CHAT_ID, inflight, last >>

\* /\/report(?: (.+))?/.exec(text): whether it matches, and group 1
\* (<< >> when the group did not take part in the match)
matchesReport(text) == includes(text, CMD_REPORT)

execReport(text) ==
  LET rest == substring(text, indexOf(text, CMD_REPORT) + Len(CMD_REPORT))
  IN  IF startsWith(rest, << " " >>) /\ Len(rest) >= 2 THEN substring(rest, 1) ELSE << >>

\* the target/content parsing of the one-line report
reportParts(fullText) == split(fullText, " ")

\* a target test that knows the sigil form only
hasExplicitTarget_sigilOnly(parts) ==
  Len(parts) > 1 /\ startsWith(parts[1], AT)

hasExplicitTarget(parts) ==
  Len(parts) > 1 /\ (startsWith(parts[1], AT) \/ matchesInteger(parts[1]))

\* bot.onText(/\/report(?: (.+))?/, ...)
onText_report(m, msg) ==
  IF ~matchesReport(msg.text) THEN m
  ELSE
    LET chatId == msg.chat
        userId == msg.from
        fullText == trim(execReport(msg.text))
        parts == reportParts(fullText)
        explicit == hasExplicitTarget(parts)
        targetChat == IF explicit THEN parts[1] ELSE DEFAULT_CHANNEL_CHAT_ID
        reportContent == IF explicit THEN join(Tail(parts), " ") ELSE fullText
        sessionData == [ chatId |-> targetChat, link |-> targetChat,
                         reason |-> reportContent,
                         reporterName |-> reporterNameOf(msg) ]
        a == acts(m, "report")
    IN  IF ~Falsy(fullText)
        THEN IF ~explicit /\ Falsy(DEFAULT_CHANNEL_CHAT_ID)
             THEN sendMessage(a, chatId, "report_no_target", << >>)
             ELSE IF Falsy(trim(reportContent))
             THEN sendMessage(a, chatId, "report_no_message", << >>)
             ELSE suspend(
                    awaitSendMessage([ a EXCEPT !.composed = Append(@, sessionData) ],
                                     targetChat, "report", generateReport(sessionData)),
                    [ kind |-> "oneliner", userId |-> userId, chatId |-> chatId,
                      arg |-> targetChat ])
        ELSE
          LET started == [ a EXCEPT !.sessions = startSession(@, userId) ]
              prompted == sendMessage(started, chatId, "ask_link", << >>)
          IN  [ prompted EXCEPT
                  !.sessions = updateSession(@, userId, [ step |-> "awaitingReportLink" ]) ]

\* bot.onText(/\/cancel/, ...)
onText_cancel(m, msg) ==
  IF ~includes(msg.text, CMD_CANCEL) THEN m
  ELSE IF hasSession(m.sessions, msg.from)
  THEN sendMessage([ acts(m, "cancel") EXCEPT !.sessions = endSession(@, msg.from) ],
                   msg.chat, "cancelled", << >>)
  ELSE sendMessage(acts(m, "cancel"), msg.chat, "nothing_to_cancel", << >>)

\* mutant of sessionTargetLink: the sigil form is stored without normalisation
sessionTargetLink_rawSigil(text) ==
  IF startsWith(text, TME) THEN text
  ELSE IF startsWith(text, AT) THEN text
  ELSE IF matchesWord(text) THEN TME \o text
  ELSE << >>

\* the link/username normalisation of case 'awaitingReportLink';
\* << >> stands for the rejected input
sessionTargetLink(text) ==
  IF startsWith(text, TME) THEN text
  ELSE IF startsWith(text, AT) THEN TME \o substring(text, 1)
  ELSE IF matchesWord(text) THEN TME \o text
  ELSE << >>

\* case 'awaitingReportLink'
awaitingReportLink(m, msg) ==
  LET targetLink == sessionTargetLink(msg.text)
  IN  IF targetLink = << >>
      THEN sendMessage(m, msg.chat, "invalid_link", << >>)
      ELSE sendMessage(
             [ m EXCEPT !.sessions =
                 updateSession(@, msg.from,
                               [ link |-> targetLink, step |-> "awaitingReportReason" ]) ],
             msg.chat, "ask_reason", targetLink)

\* mutant of awaitingReportReason: a blank reason sends the workflow back to
\* the link step
awaitingReportReason_restarts(m, msg) ==
  sendMessage(
    [ m EXCEPT !.sessions =
        updateSession(@, msg.from, [ step |-> "awaitingReportLink" ]) ],
    msg.chat, "ask_link", << >>)

\* mutant of awaitingReportReason: the reason is taken without trim()
awaitingReportReason_untrimmed(m, msg) ==
  LET userId == msg.from
      reportReason == msg.text
      updated == [ m EXCEPT !.sessions = updateSession(@, userId, [ reason |-> reportReason ]) ]
      finalSessionData == updated.sessions[userId]
      reportTargetChat == DEFAULT_CHANNEL_CHAT_ID
      reportDetails == [ chatId |-> reportTargetChat,
                         link |-> finalSessionData.link,
                         reason |-> finalSessionData.reason,
                         reporterName |-> reporterNameOf(msg) ]
  IN  IF Falsy(reportReason)
      THEN sendMessage(m, msg.chat, "ask_reason_again", << >>)
      ELSE IF Falsy(reportTargetChat)
      THEN sendMessage([ updated EXCEPT !.sessions = endSession(@, userId) ],
                       msg.chat, "no_default_channel", << >>)
      ELSE suspend(
             awaitSendMessage([ updated EXCEPT !.composed = Append(@, reportDetails) ],
                              reportTargetChat, "report", generateReport(reportDetails)),
             [ kind |-> "guided", userId |-> userId, chatId |-> msg.chat,
               arg |-> reportTargetChat ])

\* case 'awaitingReportReason', up to its await
awaitingReportReason(m, msg) ==
  LET userId == msg.from
      reportReason == trim(msg.text)
      updated == [ m EXCEPT !.sessions = updateSession(@, userId, [ reason |-> reportReason ]) ]
      finalSessionData == updated.sessions[userId]
      reportTargetChat == DEFAULT_CHANNEL_CHAT_ID
      reportDetails == [ chatId |-> reportTargetChat,
                         link |-> finalSessionData.link,
                         reason |-> finalSessionData.reason,
                         reporterName |-> reporterNameOf(msg) ]
  IN  IF Falsy(reportReason)
      THEN sendMessage(m, msg.chat, "ask_reason_again", << >>)
      ELSE IF Falsy(reportTargetChat)
      THEN sendMessage([ updated EXCEPT !.sessions = endSession(@, userId) ],
                       msg.chat, "no_default_channel", << >>)
      ELSE suspend(
             awaitSendMessage([ updated EXCEPT !.composed = Append(@, reportDetails) ],
                              reportTargetChat, "report", generateReport(reportDetails)),
             [ kind |-> "guided", userId |-> userId, chatId |-> msg.chat,
               arg |-> reportTargetChat ])

\* bot.on('message', ...): the general handler of session-based interactions
onMessage_session(m, msg) ==
  LET text == msg.text
      userId == msg.from
  IN  IF Falsy(text) \/ startsWith(text, SLASH) THEN m
      ELSE IF hasSession(m.sessions, userId)
      THEN LET session == m.sessions[userId]
               a == acts(m, "session")
           IN  IF session.step = "awaitingReportLink" THEN awaitingReportLink(a, msg)
               ELSE IF session.step = "awaitingReportReason" THEN awaitingReportReason(a, msg)
               ELSE sendMessage(a, msg.chat, "unknown_step", << >>)
      ELSE IF toLowerCase(text) \notin greetings
      THEN sendMessage(acts(m, "fallback"), msg.chat, "fallback", << >>)
      ELSE m

\* bot.processUpdate(req.body): emit 'message' to its listeners in the order
\* of registration, then run every onText callback whose expression matches
processUpdate(m, msg) ==
  LET emitted == onMessage_session(onMessage_greetings(m, msg), msg)
  IN  IF Falsy(msg.text) THEN emitted
      ELSE onText_add3(
             onText_cancel(onText_report(onText_check(onText_start(emitted, msg), msg), msg), msg),
             msg)

(***************************************************************************)
(* The inbound updates explored.  A Telegram user id is its decimal        *)
(* numeral; updates arrive in the sender's private chat, whose chat id is  *)
(* the sender's user id.                                                   *)
(***************************************************************************)
Users == { << "1" >>, << "2" >> }

FirstName(u) == IF u = << "1" >> THEN << "A","n","n" >> ELSE << >>

CHANNEL == << "@","c" >>
Channels == { << >>, CHANNEL }

TXT_report == << "/","r","e","p","o","r","t" >>
TXT_cancel == << "/","c","a","n","c","e","l" >>
TXT_start == << "/","s","t","a","r","t" >>
TXT_check == << "/","c","h","e","c","k"," ","@","f","o","o" >>
TXT_at_foo == << "@","f","o","o" >>
TXT_spam == << "s","p","a","m"," ","c","o","n","t","e","n","t" >>
TXT_blank == << " "," " >>
TXT_empty == << >>
TXT_hi == << "h","i" >>
TXT_see_cancel == << "s","e","e"," ","/","c","a","n","c","e","l" >>
TXT_see_report == << "s","e","e"," ","/","r","e","p","o","r","t" >>
TXT_at_foo_bar == << "@","f","o","o"," ","b","a","r" >>
TXT_oneliner == << "/","r","e","p","o","r","t"," ","@","c"," ","s","p","a","m" >>
TXT_add3 == << "/","a","d","d","3"," ","@","x" >>
TXT_oneliner_cancel ==
  << "/","r","e","p","o","r","t"," ","@","c"," ","/","c","a","n","c","e","l" >>
TXT_see_oneliner ==
  << "s","e","e"," ","/","r","e","p","o","r","t"," ","@","c"," ","s","p","a","m" >>
TXT_see_check == << "s","e","e"," ","/","c","h","e","c","k"," ","@","f","o","o" >>

Texts ==
  { TXT_report,
    TXT_cancel,
    TXT_start,
    TXT_check,
    TXT_at_foo,
    TXT_spam,
    TXT_blank,
    TXT_empty,
    TXT_hi,
    TXT_see_cancel,
    TXT_see_report,
    TXT_at_foo_bar,
    TXT_oneliner,
    TXT_oneliner_cancel,
    TXT_see_oneliner,
    TXT_see_check,
    TXT_add3 }

\* the second user is a bystander who walks through the guided workflow
BystanderTexts == { TXT_report, TXT_at_foo, TXT_spam, TXT_cancel }

TextsOf(u) == IF u = << "1" >> THEN Texts ELSE BystanderTexts

Message(u, t) == [ from |-> u, chat |-> u, text |-> t, first_name |-> FirstName(u) ]

NoMessage == [ from |-> << >>, chat |-> << >>, text |-> << >>, first_name |-> << >> ]
NoCont == [ kind |-> "none", userId |-> << >>, chatId |-> << >>, arg |-> << >> ]

Context == [ sessions |-> sessions, inflight |-> inflight,
             out |-> << >>, composed |-> << >>, fired |-> {} ]

Init ==
  /\ sessions = << >>
  /\ DEFAULT_CHANNEL_CHAT_ID \in Channels
  /\ inflight = EmptyBag
  /\ last = [ event |-> "none", msg |-> NoMessage, cont |-> NoCont, pre |-> << >>,
              fired |-> {}, out |-> << >>, composed |-> << >>, spawned |-> EmptyBag,
              cancelled |-> {} ]

\* app.post(`/bot${TOKEN}`): one update is processed by every callback
Receive(u, t) ==
  LET msg == Message(u, t)
  IN  \E m \in { processUpdate(Context, msg) } :
      /\ BagCardinality(m.inflight) <= MaxInFlight
      /\ sessions' = m.sessions
      /\ inflight' = m.inflight
      /\ last' = [ event |-> "message", msg |-> msg, cont |-> NoCont, pre |-> sessions,
                   fired |-> m.fired, out |-> m.out, composed |-> m.composed,
                   spawned |-> m.inflight (-) inflight,
                   afterCancel |-> u \in last.cancelled,
                   cancelled |-> IF t = TXT_cancel /\ u \in DOMAIN sessions
                                 THEN last.cancelled \cup { u }
                                 ELSE last.cancelled \ { u } ]
      /\ UNCHANGED DEFAULT_CHANNEL_CHAT_ID

\* the rest of a handler after its await
Resumed(k, event, m) ==
  /\ sessions' = m.sessions
  /\ inflight' = inflight (-) SetToBag({k})
  /\ last' = [ event |-> event, msg |-> NoMessage, cont |-> k, pre |-> sessions,
               fired |-> {}, out |-> m.out, composed |-> << >>, spawned |-> EmptyBag,
               cancelled |-> last.cancelled ]
  /\ UNCHANGED DEFAULT_CHANNEL_CHAT_ID

\* a completion without the finally block
guidedDelivered_keepsSession(m, k) ==
  sendMessage(m, k.chatId, "report_sent", k.arg)

\* case 'awaitingReportReason' after the await: the try block completes
guidedDelivered(m, k) ==
  [ sendMessage(m, k.chatId, "report_sent", k.arg) EXCEPT
      !.sessions = endSession(@, k.userId) ]

\* case 'awaitingReportReason' after the await: catch, then finally
guidedFailed(m, k) ==
  [ sendMessage(m, k.chatId, "report_failed", k.arg) EXCEPT
      !.sessions = endSession(@, k.userId) ]

\* the one-line report after the await
onelinerDelivered(m, k) == sendMessage(m, k.chatId, "report_sent", k.arg)

onelinerFailed(m, k) == sendMessage(m, k.chatId, "report_failed", k.arg)

\* the /check handler after the await
checkResolved(m, k) == sendMessage(m, k.chatId, "check_result", checkChatStatus(k.arg))

GuidedDelivered(k) ==
  k.kind = "guided" /\ Resumed(k, "guidedDelivered", guidedDelivered(Context, k))

GuidedFailed(k) ==
  k.kind = "guided" /\ Resumed(k, "guidedFailed", guidedFailed(Context, k))

OnelinerDelivered(k) ==
  k.kind = "oneliner" /\ Resumed(k, "onelinerDelivered", onelinerDelivered(Context, k))

OnelinerFailed(k) ==
  k.kind = "oneliner" /\ Resumed(k, "onelinerFailed", onelinerFailed(Context, k))

CheckResolved(k) ==
  k.kind = "check" /\ Resumed(k, "checkResolved", checkResolved(Context, k))

Next ==
  \/ \E u \in Users : \E t \in TextsOf(u) : Receive(u, t)
  \/ \E k \in BagToSet(inflight) : GuidedDelivered(k)
  \/ \E k \in BagToSet(inflight) : GuidedFailed(k)
  \/ \E k \in BagToSet(inflight) : OnelinerDelivered(k)
  \/ \E k \in BagToSet(inflight) : OnelinerFailed(k)
  \/ \E k \in BagToSet(inflight) : CheckResolved(k)

Spec == Init /\ [][Next]_vars

(***************************************************************************)
(* Vocabulary of the properties.  `last` describes the latest turn: the    *)
(* update processed (or the continuation resumed), the session Map before  *)
(* the turn, and what the turn did.  `last.cancelled` holds the users      *)
(* whose latest message is a cancel command that found a session, and      *)
(* `last.afterCancel` tells whether the sender of this update was one of   *)
(* them.                                                                   *)
(***************************************************************************)
AwaitingLink == "awaitingReportLink"
AwaitingReason == "awaitingReportReason"

IsMessageTurn == last.event = "message"
Sender == last.msg.from
Text == last.msg.text

\* the text is free text for the dispatcher: non-empty and not a command
IsFreeText(t) == ~Falsy(t) /\ ~startsWith(t, SLASH)

\* the step of u's session in the Map S, "none" when u has no session
StepIn(S, u) == IF u \in DOMAIN S THEN S[u].step ELSE "none"

\* a session as start() leaves it for the dispatcher: no targetLink, no reason
FreshSession == [ step |-> AwaitingLink ]

\* the tags of the sendMessage calls of the latest turn
Tags == { last.out[i].tag : i \in DOMAIN last.out }

\* the turn handed a report to the messaging client
ReportSent == "report" \in Tags

(***************************************************************************)
(* The status-monitor variant of the bot (src/unnamed/part_002, first      *)
(* program): its /check handler, which probes through the Bot API.         *)
(***************************************************************************)
PLUS == << "+" >>
MINUS == << "-" >>

\* the normalisation of the /check handler; << >> stands for the rejected input
monitorTargetIdentifier(input) ==
  IF startsWith(input, TME)
  THEN LET tail == substring(input, lastIndexOf(input, SLASH) + 1)
       IN  IF startsWith(tail, PLUS) THEN MINUS \o substring(tail, 1)
           ELSE IF ~startsWith(tail, AT) THEN AT \o tail
           ELSE tail
  ELSE IF startsWith(input, AT) THEN input
  ELSE IF matchesWord(input) THEN AT \o input
  ELSE << >>

\* bot.onText(/\/check (.+)/, ...) up to its first await (the placeholder)
monitor_onText_check(m, msg) ==
  IF execCheck(msg.text) = << >> THEN m
  ELSE
    LET input == trim(execCheck(msg.text))
        targetIdentifier == monitorTargetIdentifier(input)
    IN  IF targetIdentifier = << >>
        THEN sendMessage(acts(m, "monitor_check"), msg.chat, "check_invalid", << >>)
        ELSE suspend(sendMessage(acts(m, "monitor_check"), msg.chat, "checking", input),
                     [ kind |-> "monitor_placeholder", userId |-> msg.from,
                       chatId |-> msg.chat, arg |-> targetIdentifier,
                       input |-> input ])

\* bot.onText(/\/start/, ...) of the monitor
monitor_onText_start(m, msg) ==
  IF includes(msg.text, CMD_START)
  THEN sendMessage(acts(m, "monitor_start"), msg.chat, "monitor_welcome", << >>)
  ELSE m

\* bot.on('message', ...) of the monitor: the greeting is awaited inside a
\* try block, the acknowledgement of any other free text is not
monitor_onMessage(m, msg) ==
  LET text == toLowerCase(msg.text)
  IN  IF Falsy(text) THEN m
      ELSE IF text \in greetings
      THEN awaitSendMessage(acts(m, "monitor_message"), msg.chat, "monitor_greeting", << >>)
      ELSE IF ~startsWith(text, SLASH)
      THEN sendMessage(acts(m, "monitor_message"), msg.chat, "monitor_received", << >>)
      ELSE m

CMD_HELP == << "/","h","e","l","p" >>

\* bot.onText(/\/help/, ...) of the monitor
monitor_onText_help(m, msg) ==
  IF includes(msg.text, CMD_HELP)
  THEN awaitSendMessage(acts(m, "monitor_help"), msg.chat, "monitor_help", << >>)
  ELSE m

\* bot.processUpdate(req.body) of the monitor: the 'message' listener, then
\* every onText callback whose expression matches, in order of registration
monitor_processUpdate(m, msg) ==
  LET emitted == monitor_onMessage(m, msg)
  IN  IF Falsy(msg.text) THEN emitted
      ELSE monitor_onText_help(
             monitor_onText_check(monitor_onText_start(emitted, msg), msg), msg)

MonitorReceive(u, t) ==
  LET msg == Message(u, t)
  IN  \E m \in { monitor_processUpdate(Context, msg) } :
      /\ BagCardinality(m.inflight) <= MaxInFlight
      /\ sessions' = m.sessions
      /\ inflight' = m.inflight
      /\ last' = [ event |-> "monitorMessage", msg |-> msg, cont |-> NoCont,
                   pre |-> sessions, fired |-> m.fired, out |-> m.out,
                   composed |-> m.composed, spawned |-> m.inflight (-) inflight,
                   cancelled |-> last.cancelled ]
      /\ UNCHANGED DEFAULT_CHANNEL_CHAT_ID

\* the placeholder is sent: checkChatStatus(bot, targetIdentifier) is awaited
monitorProbe(m, k) == suspend(m, [ k EXCEPT !.kind = "monitor_probe" ])

\* an edit addressed to the chat of the latest update instead of the chat
\* of the placeholder
monitorEdit_latestChat(m, k, tag) == sendMessage(m, last.msg.chat, tag, k.arg)

\* the placeholder is edited.  The edit to the result is awaited inside the
\* try block, so the handler stays suspended at it; the edit of the catch
\* block quotes the input as the user typed it and ends the handler
monitorEdit(m, k, tag) ==
  IF tag = "check_result"
  THEN suspend(awaitSendMessage(m, k.chatId, tag, k.arg),
               [ k EXCEPT !.kind = "monitor_edit" ])
  ELSE sendMessage(m, k.chatId, tag, k.input)

MonitorPlaceholderSent(k) ==
  /\ k.kind = "monitor_placeholder"
  /\ \E m \in { monitorProbe(Context, k) } :
       /\ sessions' = m.sessions
       /\ inflight' = m.inflight (-) SetToBag({k})
       /\ last' = [ event |-> "monitorPlaceholderSent", msg |-> NoMessage, cont |-> k,
                    pre |-> sessions, fired |-> {}, out |-> m.out, composed |-> << >>,
                    spawned |-> m.inflight (-) inflight,
                    cancelled |-> last.cancelled ]
  /\ UNCHANGED DEFAULT_CHANNEL_CHAT_ID

\* the placeholder send is rejected: the await of line 132 stands outside the
\* try block, so the rejection leaves the callback; nothing is probed or edited
MonitorPlaceholderRejected(k) ==
  /\ k.kind = "monitor_placeholder"
  /\ Resumed(k, "monitorPlaceholderRejected", Context)

\* checkChatStatus(bot, targetIdentifier) settled: it returned its report
\* (check_result) or its promise was rejected (check_error)
MonitorProbeSettled(k, tag) ==
  /\ k.kind = "monitor_probe"
  /\ \E m \in { monitorEdit(Context, k, tag) } :
       /\ sessions' = m.sessions
       /\ inflight' = m.inflight (-) SetToBag({k})
       /\ last' = [ event |-> "monitorProbeSettled", msg |-> NoMessage, cont |-> k,
                    pre |-> sessions, fired |-> {}, out |-> m.out, composed |-> << >>,
                    spawned |-> m.inflight (-) inflight,
                    cancelled |-> last.cancelled ]
  /\ UNCHANGED DEFAULT_CHANNEL_CHAT_ID

\* the awaited edit to the result settled: the handler ends, or the edit was
\* rejected and the catch block edits the placeholder to the error
MonitorEditSettled(k, ok) ==
  /\ k.kind = "monitor_edit"
  /\ Resumed(k, "monitorEditSettled",
             IF ok THEN Context ELSE monitorEdit(Context, k, "check_error"))

(***************************************************************************)
(* Normalisation workbench: the handlers that normalise an identifier are  *)
(* applied, one scenario at a time, to the three shapes of every name of   *)
(* up to MaxNameLen characters.                                            *)
(***************************************************************************)
NameChars == { "a", "Z", "7", "_" }

RECURSIVE NamesOfLen(_)
NamesOfLen(n) ==
  IF n = 0 THEN { << >> }
  ELSE { Append(x, c) : x \in NamesOfLen(n - 1), c \in NameChars }

Names == UNION { NamesOfLen(n) : n \in 1..MaxNameLen }

Shapes(x) == { TME \o x, AT \o x, x }

ShapeTexts == UNION { Shapes(x) : x \in Names }

CheckTexts == { CMD_CHECK_SP \o s : s \in ShapeTexts }

Tester == << "1" >>

Idle == sessions = << >> /\ inflight = EmptyBag

NormNext ==
  \/ \E t \in CheckTexts : Idle /\ Receive(Tester, t)
  \/ \E k \in BagToSet(inflight) : CheckResolved(k)
  \/ \E t \in CheckTexts : Idle /\ MonitorReceive(Tester, t)
  \/ \E k \in BagToSet(inflight) : MonitorPlaceholderSent(k)
  \/ \E k \in BagToSet(inflight) : MonitorPlaceholderRejected(k)
  \/ \E k \in BagToSet(inflight) :
       \E tag \in { "check_result", "check_error" } : MonitorProbeSettled(k, tag)
  \/ \E k \in BagToSet(inflight) : \E ok \in BOOLEAN : MonitorEditSettled(k, ok)
  \/ Idle /\ Receive(Tester, TXT_report)
  \/ \E t \in ShapeTexts : StepIn(sessions, Tester) = AwaitingLink /\ Receive(Tester, t)
  \/ StepIn(sessions, Tester) = AwaitingReason /\ Receive(Tester, TXT_cancel)

NormSpec == Init /\ [][NormNext]_vars

LINK_foo == << "h","t","t","p","s",":","/","/","t",".","m","e","/","f","o","o" >>

(***************************************************************************)
(* C1 (as stated): after a bare report command from a sender without a     *)
(* session the session is AwaitingLink; the free text "@foo" then leaves   *)
(* {AwaitingReason, targetLink = "@foo"}; the free text "spam content"     *)
(* then has the composer invoked with reason "spam content" and targetLink *)
(* "@foo", and the session ends.                                           *)
(***************************************************************************)
C1_EndToEnd_AsStated ==
  /\ last.event \in { "guidedDelivered", "guidedFailed" }
       => last.cont.userId \notin DOMAIN sessions
  /\ IsMessageTurn =>
    /\ (Text = TXT_report /\ Sender \notin DOMAIN last.pre)
         => (Sender \in DOMAIN sessions /\ sessions[Sender] = FreshSession)
    /\ (Text = TXT_at_foo /\ StepIn(last.pre, Sender) = AwaitingLink)
         => (/\ Sender \in DOMAIN sessions
             /\ sessions[Sender] = [ step |-> AwaitingReason, link |-> TXT_at_foo ])
    /\ (Text = TXT_spam /\ StepIn(last.pre, Sender) = AwaitingReason)
         => (/\ Len(last.composed) = 1
             /\ last.composed[1].reason = TXT_spam
             /\ last.composed[1].link = TXT_at_foo)

(***************************************************************************)
(* C1 (amended): the same scenario with the targetLink the code stores,    *)
(* "https://t.me/foo"; the composer is invoked when a default channel is   *)
(* configured, and the session ends when the delivery attempt settles      *)
(* (at once, with nothing composed, when no default channel is configured).*)
(***************************************************************************)
C1_EndToEnd ==
  /\ IsMessageTurn =>
       /\ (Text = TXT_report /\ Sender \notin DOMAIN last.pre)
            => (Sender \in DOMAIN sessions /\ sessions[Sender] = FreshSession)
       /\ (Text = TXT_at_foo /\ Sender \in DOMAIN last.pre
             /\ last.pre[Sender] = FreshSession)
            => (/\ Sender \in DOMAIN sessions
                /\ sessions[Sender] = [ step |-> AwaitingReason, link |-> LINK_foo ])
       /\ (Text = TXT_spam /\ Sender \in DOMAIN last.pre
             /\ last.pre[Sender] = [ step |-> AwaitingReason, link |-> LINK_foo ])
            => IF Falsy(DEFAULT_CHANNEL_CHAT_ID)
               THEN last.composed = << >> /\ Sender \notin DOMAIN sessions
               ELSE /\ Len(last.composed) = 1
                    /\ last.composed[1].reason = TXT_spam
                    /\ last.composed[1].link = LINK_foo
                    /\ [ kind |-> "guided", userId |-> Sender, chatId |-> last.msg.chat,
                         arg |-> DEFAULT_CHANNEL_CHAT_ID ] \in BagToSet(last.spawned)
  /\ last.event \in { "guidedDelivered", "guidedFailed" }
       => last.cont.userId \notin DOMAIN sessions

C1_Witness ==
  /\ IsMessageTurn /\ Text = TXT_spam
  /\ Sender \in DOMAIN last.pre
  /\ last.pre[Sender] = [ step |-> AwaitingReason, link |-> LINK_foo ]
  /\ Len(last.composed) = 1
  /\ last.composed[1].reason = TXT_spam

\* the message matches the report command and carries no inline payload
IsBareReport(t) == matchesReport(t) /\ Falsy(trim(execReport(t)))

(***************************************************************************)
(* C2 (as stated): whatever the inputs, a session that has reached         *)
(* AwaitingReason never returns to AwaitingLink, and an ended session is   *)
(* never revived (a session that appears for an owner without one carries  *)
(* nothing of an earlier session).                                         *)
(***************************************************************************)
C2_Monotonic_AsStated ==
  \A u \in Users :
    /\ StepIn(last.pre, u) = AwaitingReason => StepIn(sessions, u) # AwaitingLink
    /\ (u \notin DOMAIN last.pre /\ u \in DOMAIN sessions) => sessions[u] = FreshSession

(***************************************************************************)
(* C2 (amended): a session in AwaitingReason returns to AwaitingLink only  *)
(* when its owner sends a message that matches the report command without  *)
(* an inline payload, which replaces it by a fresh session; free text,     *)
(* cancel and completions never regress it.  A session appears for an      *)
(* owner without one only by such a message, and is then fresh.            *)
(***************************************************************************)
C2_Monotonic ==
  \A u \in Users :
    /\ (StepIn(last.pre, u) = AwaitingReason /\ StepIn(sessions, u) = AwaitingLink)
         => (/\ IsMessageTurn /\ Sender = u /\ IsBareReport(Text)
             /\ sessions[u] = FreshSession)
    /\ (u \notin DOMAIN last.pre /\ u \in DOMAIN sessions)
         => (/\ IsMessageTurn /\ Sender = u /\ IsBareReport(Text)
             /\ sessions[u] = FreshSession)
    /\ StepIn(last.pre, u) = AwaitingReason
         => StepIn(sessions, u) \in { "none", AwaitingLink, AwaitingReason }

C2_Witness ==
  /\ IsMessageTurn /\ Text = TXT_report
  /\ StepIn(last.pre, Sender) = AwaitingReason
  /\ StepIn(sessions, Sender) = AwaitingLink

\* one of the three identifier shapes the dispatcher is specified to accept:
\* link to a name, sigil-prefixed name, bare name
IsIdentifierShape(t) ==
  \/ matchesWord(t)
  \/ startsWith(t, AT) /\ matchesWord(substring(t, Len(AT)))
  \/ startsWith(t, TME) /\ matchesWord(substring(t, Len(TME)))

(***************************************************************************)
(* C3: a free text that is none of the three identifier shapes, received   *)
(* in AwaitingLink, is rejected with a re-prompt and leaves the session    *)
(* store unchanged.                                                        *)
(***************************************************************************)
C3_InvalidLinkRejected ==
  (/\ IsMessageTurn /\ IsFreeText(Text)
   /\ StepIn(last.pre, Sender) = AwaitingLink
   /\ ~IsIdentifierShape(Text))
    => (sessions = last.pre /\ "invalid_link" \in Tags)

(***************************************************************************)
(* C5: the cancel command leaves its sender without a session and delivers *)
(* no report; the sender's next message, when it is free text, finds no    *)
(* session and is handled as the no-session fallback only: the session     *)
(* workflow does not consume it, nothing is composed from it, no report    *)
(* is sent, no delivery or probe is started and no session is created.     *)
(***************************************************************************)
C5_Cancellation ==
  /\ (IsMessageTurn /\ Text = TXT_cancel)
       => (/\ Sender \notin DOMAIN sessions
           /\ last.composed = << >> /\ ~ReportSent /\ last.spawned = EmptyBag
           /\ "session" \notin last.fired)
  /\ (IsMessageTurn /\ IsFreeText(Text) /\ last.afterCancel)
       => (/\ Sender \notin DOMAIN last.pre
           /\ "session" \notin last.fired
           /\ "fallback" \in last.fired \/ toLowerCase(Text) \in greetings
           /\ last.composed = << >> /\ ~ReportSent /\ last.spawned = EmptyBag
           /\ Sender \notin DOMAIN sessions)

CommandHandlers == { "start", "check", "report", "cancel", "add3" }

(***************************************************************************)
(* C6: for a sender with an active session, a message that a command       *)
(* handler recognises is never consumed by the session handler.            *)
(***************************************************************************)
C6_DispatchPriority ==
  (/\ IsMessageTurn /\ Sender \in DOMAIN last.pre
   /\ last.fired \cap CommandHandlers # {})
    => "session" \notin last.fired

(***************************************************************************)
(* C7: exactly one of the registered handlers acts on an inbound message.  *)
(***************************************************************************)
C7_ExactlyOneHandler ==
  (IsMessageTurn /\ ~Falsy(Text)) => Cardinality(last.fired) = 1

\* the replies of the latest turn to the conversation it came from
RepliesNow ==
  Cardinality({ i \in DOMAIN last.out :
                  last.out[i].to = last.msg.chat /\ last.out[i].tag # "report" })

(***************************************************************************)
(* C8: a handled inbound message produces exactly one reply to its         *)
(* sender's conversation (a suspended handler replies once when resumed).  *)
(***************************************************************************)
C8_ExactlyOneReply ==
  /\ (IsMessageTurn /\ last.fired # {})
       => RepliesNow + BagCardinality(last.spawned) = 1
  /\ last.cont.kind # "none" => Len(last.out) = 1

(***************************************************************************)
(* C9: after a non-empty free text is handled for a sender in              *)
(* AwaitingReason the sender's session is absent: when no channel is       *)
(* configured (handled within the turn) and when the delivery succeeded or *)
(* failed (handled when the continuation has run).                         *)
(***************************************************************************)
C9_CompletionEndsSession ==
  /\ (/\ IsMessageTurn /\ IsFreeText(Text) /\ ~Falsy(trim(Text))
      /\ StepIn(last.pre, Sender) = AwaitingReason
      /\ Falsy(DEFAULT_CHANNEL_CHAT_ID))
       => Sender \notin DOMAIN sessions
  /\ last.event \in { "guidedDelivered", "guidedFailed" }
       => last.cont.userId \notin DOMAIN sessions

\* the turn did nothing but send the reply `tag` to the sender's conversation
OnlyReplied(tag) ==
  /\ sessions = last.pre
  /\ last.out = << [ to |-> last.msg.chat, tag |-> tag, body |-> << >>,
                     awaited |-> FALSE ] >>
  /\ last.composed = << >> /\ last.spawned = EmptyBag

(***************************************************************************)
(* C10 (as stated): an empty or whitespace-only message in AwaitingReason  *)
(* causes a re-prompt only.                                                *)
(***************************************************************************)
C10_BlankReason_AsStated ==
  (/\ IsMessageTurn /\ Falsy(trim(Text))
   /\ StepIn(last.pre, Sender) = AwaitingReason)
    => OnlyReplied("ask_reason_again")

(***************************************************************************)
(* C10 (amended): a whitespace-only message in AwaitingReason causes a     *)
(* re-prompt only; a message with no text is ignored without any reply;    *)
(* in both cases the session keeps its step and targetLink, no reason is   *)
(* stored and no report is composed or delivered.                          *)
(***************************************************************************)
C10_BlankReason ==
  (/\ IsMessageTurn /\ Falsy(trim(Text))
   /\ StepIn(last.pre, Sender) = AwaitingReason)
    => IF Falsy(Text)
       THEN /\ sessions = last.pre /\ last.out = << >>
            /\ last.composed = << >> /\ last.spawned = EmptyBag
       ELSE OnlyReplied("ask_reason_again")

C10_Witness ==
  /\ IsMessageTurn /\ Text = TXT_blank
  /\ StepIn(last.pre, Sender) = AwaitingReason
  /\ "ask_reason_again" \in Tags
  /\ StepIn(sessions, Sender) = AwaitingReason

(***************************************************************************)
(* C4: for every name x of letters, digits and underscores, the link form, *)
(* the sigil form "@x" and the bare form "x" normalise to one and the same *)
(* reference: in the /check handler, in the report workflow, and in the    *)
(* /check handler of the monitor variant.  Whichever shape the handler was *)
(* given, what it stored or probed is what it makes of each of the three.  *)
(***************************************************************************)
C4_ShapeIndependent ==
  \A x \in Names :
    /\ (/\ IsMessageTurn /\ "check" \in last.fired
        /\ trim(execCheck(Text)) \in Shapes(x))
         => \A s \in Shapes(x) :
              BagToSet(last.spawned) =
                { [ kind |-> "check", userId |-> Sender, chatId |-> last.msg.chat,
                    arg |-> checkTargetLink(s) ] }
    /\ (/\ IsMessageTurn /\ "session" \in last.fired
        /\ StepIn(last.pre, Sender) = AwaitingLink /\ Text \in Shapes(x))
         => \A s \in Shapes(x) :
              /\ Sender \in DOMAIN sessions
              /\ sessions[Sender] =
                   [ step |-> AwaitingReason, link |-> sessionTargetLink(s) ]
    /\ (/\ last.event = "monitorMessage" /\ "monitor_check" \in last.fired
        /\ trim(execCheck(Text)) \in Shapes(x))
         => \A s \in Shapes(x) :
              BagToSet(last.spawned) =
                { [ kind |-> "monitor_placeholder", userId |-> Sender,
                    chatId |-> last.msg.chat, arg |-> monitorTargetIdentifier(s),
                    input |-> trim(execCheck(Text)) ] }

C4_Witness ==
  /\ IsMessageTurn /\ Text = << "@", "a", "Z" >>
  /\ StepIn(last.pre, Sender) = AwaitingLink
  /\ Sender \in DOMAIN sessions
  /\ sessions[Sender].link = TME \o << "a", "Z" >>

(***************************************************************************)
(* C11: a report command with an inline payload bypasses the session       *)
(* store: whatever the sender's session before it and whatever the         *)
(* delivery outcome, the session Map is the same before and after the      *)
(* command and before and after its delivery settles.                      *)
(***************************************************************************)
IsOneLiner(t) ==
  startsWith(t, CMD_REPORT) /\ matchesReport(t) /\ ~Falsy(trim(execReport(t)))

C11_OnelinerBypassesStore ==
  /\ IsMessageTurn /\ IsOneLiner(Text) => sessions = last.pre
  /\ last.event \in { "onelinerDelivered", "onelinerFailed" } => sessions = last.pre

(***************************************************************************)
(* C12: a free-text message from a sender with no session produces only    *)
(* an acknowledgement (the fallback reply, or the greeting that stands in  *)
(* for it): it creates no session, composes and delivers no report, and    *)
(* leaves the whole session Map unchanged.                                 *)
(***************************************************************************)
C12_NoSessionFallbackOnly ==
  IsMessageTurn /\ IsFreeText(Text) /\ Sender \notin DOMAIN last.pre =>
    /\ sessions = last.pre
    /\ last.composed = << >> /\ last.spawned = EmptyBag
    /\ Tags \subseteq { "fallback", "hello" }

(***************************************************************************)
(* The Session Store on its own.  Two implementations are in the           *)
(* repository: the Map of src/utils/sessions.js (startSession,             *)
(* updateSession, endSession above) and the plain object of                *)
(* src/unnamed/part_001 (below).  StoreSpec drives either one with every   *)
(* operation, owner and partial-fields argument; last.store names the      *)
(* implementation and last.pre the store before the operation.             *)
(***************************************************************************)
\* the value of a lookup that finds no session
UNDEFINED == [ undefined |-> TRUE ]

\* sessions.get(userId) / sessions[chatId]
getSession(S, userId) == IF userId \in DOMAIN S THEN S[userId] ELSE UNDEFINED

\* sessions[chatId] = { step: 'awaiting_link' }
plain_startSession(S, chatId) ==
  [ u \in (DOMAIN S) \cup {chatId} |->
      IF u = chatId THEN [ step |-> "awaiting_link" ] ELSE S[u] ]

\* if (!sessions[chatId]) return; Object.assign(sessions[chatId], data)
plain_updateSession(S, chatId, data) ==
  IF getSession(S, chatId) = UNDEFINED
  THEN S
  ELSE [ S EXCEPT ![chatId] =
           [ k \in (DOMAIN @) \cup (DOMAIN data) |->
               IF k \in DOMAIN data THEN data[k] ELSE @[k] ] ]

\* delete sessions[chatId]
plain_endSession(S, chatId) == [ u \in (DOMAIN S) \ {chatId} |-> S[u] ]

StoreVariants == { "Map", "object" }

\* the initial step each implementation gives a started session
InitialStep(v) == IF v = "Map" THEN "awaitingLink" ELSE "awaiting_link"

\* the partialFields the callers pass, and the empty object
PartialFields ==
  { << >>,
    [ step |-> AwaitingLink ],
    [ link |-> LINK_foo, step |-> AwaitingReason ],
    [ link |-> TXT_at_foo ],
    [ reason |-> TXT_spam ] }

StoreInit ==
  /\ sessions = << >>
  /\ DEFAULT_CHANNEL_CHAT_ID = << >>
  /\ inflight = EmptyBag
  /\ \E v \in StoreVariants :
       last = [ event |-> "none", store |-> v, owner |-> << >>, data |-> << >>,
                pre |-> << >> ]

StoreOp(event, u, data, post) ==
  /\ sessions' = post
  /\ last' = [ event |-> event, store |-> last.store, owner |-> u, data |-> data,
               pre |-> sessions ]
  /\ UNCHANGED << DEFAULT_CHANNEL_CHAT_ID, inflight >>

StoreStart(u) ==
  StoreOp("start", u, << >>,
          IF last.store = "Map" THEN startSession(sessions, u)
                                ELSE plain_startSession(sessions, u))

StoreUpdate(u, data) ==
  StoreOp("update", u, data,
          IF last.store = "Map" THEN updateSession(sessions, u, data)
                                ELSE plain_updateSession(sessions, u, data))

StoreEnd(u) ==
  StoreOp("end", u, << >>,
          IF last.store = "Map" THEN endSession(sessions, u)
                                ELSE plain_endSession(sessions, u))

StoreNext ==
  \/ \E u \in Users : StoreStart(u)
  \/ \E u \in Users : \E data \in PartialFields : StoreUpdate(u, data)
  \/ \E u \in Users : StoreEnd(u)

StoreSpec == StoreInit /\ [][StoreNext]_vars

\* every owner other than the one operated on has the session it had
OthersUnchanged ==
  \A u \in Users \ {last.owner} : getSession(sessions, u) = getSession(last.pre, u)

(***************************************************************************)
(* C13: update never creates: for an owner with no session and any         *)
(* partialFields, get(owner) after update(owner, partialFields) is absent  *)
(* and the sessions of all other owners are unchanged.                     *)
(***************************************************************************)
C13_UpdateNeverCreates ==
  last.event = "update" /\ getSession(last.pre, last.owner) = UNDEFINED =>
    /\ getSession(sessions, last.owner) = UNDEFINED
    /\ OthersUnchanged

\* an update with fields on an owner without a session, while another owner has one
C13_Witness ==
  /\ last.event = "update" /\ last.data # << >>
  /\ getSession(last.pre, last.owner) = UNDEFINED
  /\ \E u \in Users \ {last.owner} : getSession(last.pre, u) # UNDEFINED

(***************************************************************************)
(* C14: start is replacement, not merge: after start(owner) the owner's    *)
(* session is exactly a fresh session in the store's initial step, with    *)
(* no link and no reason, whatever session existed before; nothing else    *)
(* in the store changes, so a second start gives the state of the first.   *)
(***************************************************************************)
C14_StartReplaces ==
  last.event = "start" =>
    /\ getSession(sessions, last.owner) = [ step |-> InitialStep(last.store) ]
    /\ OthersUnchanged
    /\ DOMAIN sessions = DOMAIN last.pre \cup {last.owner}
    /\ (getSession(last.pre, last.owner) = [ step |-> InitialStep(last.store) ]
          => sessions = last.pre)

\* a start over a session that had advanced and held a link and a reason
C14_Witness ==
  /\ last.event = "start"
  /\ getSession(last.pre, last.owner) # UNDEFINED
  /\ { "link", "reason" } \subseteq DOMAIN last.pre[last.owner]
  /\ last.pre[last.owner].step = AwaitingReason

(***************************************************************************)
(* C15: end is unconditional and total: after end(owner), get(owner) is    *)
(* absent whatever the prior session, the other owners keep their          *)
(* sessions, and end on an owner with no session changes nothing.          *)
(***************************************************************************)
C15_EndUnconditional ==
  last.event = "end" =>
    /\ getSession(sessions, last.owner) = UNDEFINED
    /\ OthersUnchanged
    /\ DOMAIN sessions = DOMAIN last.pre \ {last.owner}
    /\ (getSession(last.pre, last.owner) = UNDEFINED => sessions = last.pre)

\* an end of a session that had only its link, while the other owner has a session
C15_Witness ==
  /\ last.event = "end"
  /\ getSession(last.pre, last.owner) # UNDEFINED
  /\ DOMAIN last.pre[last.owner] = { "step", "link" }
  /\ \E u \in Users \ {last.owner} : getSession(sessions, u) # UNDEFINED

(***************************************************************************)
(* The bot under the scheduling it runs with: every awaited promise        *)
(* settles (the delivery or the check resolves or rejects), and the other  *)
(* user keeps sending messages, so the process never stops on its own.     *)
(***************************************************************************)
Settle ==
  \E k \in BagToSet(inflight) :
    \/ GuidedDelivered(k) \/ GuidedFailed(k)
    \/ OnelinerDelivered(k) \/ OnelinerFailed(k)
    \/ CheckResolved(k)

Bystander == << "2" >>

FairSpec ==
  /\ Spec
  /\ WF_vars(Settle)
  /\ WF_vars(\E t \in BystanderTexts : Receive(Bystander, t))

\* the latest turn handled a message of u
JustHeardFrom(u) == IsMessageTurn /\ Sender = u

(***************************************************************************)
(* C16: session timeout: a session whose owner sends no further message    *)
(* is eventually destroyed: from any state in which u has a session,       *)
(* either u's session is removed or a further message of u arrives.        *)
(***************************************************************************)
C16_SessionTimeout ==
  \A u \in Users \ {Bystander} :
    (hasSession(sessions, u) /\ ~JustHeardFrom(u))
      ~> (~hasSession(sessions, u) \/ JustHeardFrom(u))

(***************************************************************************)
(* C17: within one session's lifetime the link and the reason are          *)
(* write-once: a session that has a link (a reason) before a turn and      *)
(* still exists after it, without having been replaced by a new start,     *)
(* has the same link (reason) after the turn.                              *)
(***************************************************************************)
Replaced(u) == JustHeardFrom(u) /\ IsBareReport(Text)

KeepsField(u, f) ==
  f \in DOMAIN last.pre[u] =>
    f \in DOMAIN sessions[u] /\ sessions[u][f] = last.pre[u][f]

C17_WriteOnce ==
  \A u \in (DOMAIN last.pre) \cap (DOMAIN sessions) :
    ~Replaced(u) => KeepsField(u, "link") /\ KeepsField(u, "reason")

(***************************************************************************)
(* The status resolver that probes the public profile page:                *)
(* checkChatStatus(username) of src/utils/reporter.js.  The outcome of the *)
(* awaited fetch is the input: a response with a status code and a body,   *)
(* or a rejection with an Error.  The reply is the text the function       *)
(* returns; its fixed parts are single elements of the sequence.           *)
(***************************************************************************)
HTTP_OK == 200
HTTP_NOT_FOUND == 404

reporter_checkChatStatus(username, res) ==
  IF res.kind = "rejected"
  THEN << "[warning] Error: " >> \o res.message
  ELSE IF res.status = HTTP_OK
       THEN << "[check] @" >> \o username \o << " is live." >>
       ELSE IF res.status = HTTP_NOT_FOUND
            THEN << "[cross] @" >> \o username \o << " is banned or removed." >>
            ELSE << "[info] Unable to determine status for @" >> \o username

\* the category a caller reads off the reply
Category(reply) ==
  IF reply[1] = "[check] @" THEN "Live"
  ELSE IF reply[1] = "[cross] @" THEN "NotFound"
  ELSE IF reply[1] = "[info] Unable to determine status for @" THEN "Unknown"
  ELSE IF reply[1] = "[warning] Error: " THEN "TransientError"
  ELSE "Restricted"

\* the markers of the profile page
CONTACT_MARKER == << "c","o","n","t","a","c","t" >>
RESTRICTED_MARKER ==
  << "c","a","n","'","t"," ","b","e"," ","d","i","s","p","l","a","y","e","d" >>

Bodies ==
  { << "<" >> \o CONTACT_MARKER \o << ">" >>,
    << "<" >> \o RESTRICTED_MARKER \o << ">" >>,
    << "<", ">" >>,
    << >> }

StatusCodes == { HTTP_OK, HTTP_NOT_FOUND, 301, 403, 500 }

ECONNREFUSED == << "E","C","O","N","N","R","E","F","U","S","E","D" >>
ETIMEDOUT == << "E","T","I","M","E","D","O","U","T" >>

FetchResults ==
  [ kind : {"response"}, status : StatusCodes, body : Bodies ]
    \cup { [ kind |-> "rejected", message |-> msg ] : msg \in { ECONNREFUSED, ETIMEDOUT } }

\* the names probed on the workbench
ProbeNames == { << "a" >>, << "_" >>, << "Z","7" >> }

ResolverInit ==
  /\ sessions = << >>
  /\ DEFAULT_CHANNEL_CHAT_ID = << >>
  /\ inflight = EmptyBag
  /\ last = [ event |-> "none" ]

\* checkChatStatus(username) is called: the request is made and the call
\* waits at await fetch(...), the reply outstanding; other calls may begin
\* and settle meanwhile
FetchProbe(username) ==
  /\ BagCardinality(inflight) < MaxInFlight
  /\ inflight' = inflight (+) SetToBag({ [ kind |-> "fetch", subject |-> username,
                                           requests |-> << "fetch" >> ] })
  /\ last' = [ event |-> "fetchCalled", subject |-> username,
               requests |-> << "fetch" >> ]
  /\ UNCHANGED << sessions, DEFAULT_CHANNEL_CHAT_ID >>

\* the fetch of the waiting call k settles with res: the call returns its reply
FetchSettled(k, res) ==
  /\ k.kind = "fetch"
  /\ inflight' = inflight (-) SetToBag({ k })
  /\ last' = [ event |-> "fetchProbe", subject |-> k.subject, probe |-> res,
               reply |-> reporter_checkChatStatus(k.subject, res),
               requests |-> k.requests ]
  /\ UNCHANGED << sessions, DEFAULT_CHANNEL_CHAT_ID >>

(***************************************************************************)
(* The status resolver that asks the Bot API: checkChatStatus(bot,         *)
(* identifier) of src/utils/checker.js.  The outcomes of the awaited       *)
(* getChat, getMe and getChatMembersCount calls are the input.  A call     *)
(* outcome is [ ok |-> TRUE, value |-> v ] or [ ok |-> FALSE, error |-> e ]*)
(* where e.response tells whether the error carries a response body,       *)
(* e.error_code is the body's error_code (0 when it has none) and          *)
(* e.description its description (empty when it has none).  The result is  *)
(* [ threw |-> FALSE, reply |-> text ] when the function returns and       *)
(* [ threw |-> TRUE, reply |-> << >> ] when its promise is rejected.       *)
(***************************************************************************)
API_BAD_REQUEST == 400
API_FORBIDDEN == 403

BOT == << "b","o","t" >>
CHAT_NOT_FOUND == << "c","h","a","t"," ","n","o","t"," ","f","o","u","n","d" >>
UNKNOWN_ERROR == << "U","n","k","n","o","w","n"," ","e","r","r","o","r" >>
NOT_AVAILABLE == << "N","/","A" >>

endsWith(s, p) == Len(p) <= Len(s) /\ SubSeq(s, Len(s) - Len(p) + 1, Len(s)) = p

upperChar(c) ==
  IF c \in Range(LowerLetters)
  THEN UpperLetters[CHOOSE i \in DOMAIN LowerLetters : LowerLetters[i] = c]
  ELSE c

\* stands for the grave accent character
BACKTICK == "[backtick]"

\* the character class of escapeMarkdownV2
MarkdownSpecials ==
  { "_", "*", "[", "]", "(", ")", "~", BACKTICK, ">", "#", "+", "-", "=", "|", "{", "}", ".", "!" }

RECURSIVE escapeMarkdownV2(_)
\* escapeMarkdownV2(text) of a string (the empty string when text is falsy)
escapeMarkdownV2(text) ==
  IF text = << >> THEN << >>
  ELSE (IF Head(text) \in MarkdownSpecials THEN << "\\", Head(text) >> ELSE << Head(text) >>)
         \o escapeMarkdownV2(Tail(text))

\* a || b for strings
orElse(a, b) == IF Falsy(a) THEN b ELSE a

yesNo(b) == IF b THEN << "[check] Yes" >> ELSE << "[cross] No" >>

Returned(text) == [ threw |-> FALSE, reply |-> text ]
Thrown == [ threw |-> TRUE, reply |-> << >> ]

\* the catch block of checkChatStatus(bot, identifier)
botapi_catch(identifier, error) ==
  LET errorMessage ==
        << "[cross] Failed to retrieve status for [backtick]" >> \o escapeMarkdownV2(identifier)
          \o << "[backtick]." >>
  IN  IF error.response
      THEN IF Falsy(error.description) /\ error.error_code # 0
           THEN Thrown  \* escapeMarkdownV2 of a number: text.replace is not a function
           ELSE Returned(
                  errorMessage \o << "*Telegram API Error:* " >>
                    \o escapeMarkdownV2(orElse(error.description, UNKNOWN_ERROR))
                    \o (IF error.error_code = API_BAD_REQUEST
                             /\ includes(error.description, CHAT_NOT_FOUND)
                        THEN << "*Reason:* private, non-existent, or no permission" >>
                        ELSE IF error.error_code = API_FORBIDDEN
                             THEN << "*Reason:* blocked or missing permissions" >>
                             ELSE << >>))
      ELSE Returned(errorMessage \o << "*Reason:* Network error or invalid identifier." >>)

\* an error thrown by the function's own code (a TypeError): no response
OwnError == [ response |-> FALSE, error_code |-> 0, description |-> << >> ]

\* the report of the bot itself
botapi_botReport(chatInfo) ==
  << "*Telegram Entity Status Report*", "*Entity Type:* Bot", "*Name:* " >>
    \o escapeMarkdownV2(orElse(chatInfo.first_name, NOT_AVAILABLE))
    \o (IF Falsy(chatInfo.last_name) THEN << >>
        ELSE << "*Last Name:* " >> \o escapeMarkdownV2(chatInfo.last_name))
    \o << "*Username:* [backtick]@" >> \o escapeMarkdownV2(chatInfo.username) \o << "[backtick]" >>
    \o << "*ID:* [backtick]" >> \o chatInfo.id \o << "[backtick]" >>
    \o << "*Can Join Groups:* " >> \o yesNo(chatInfo.can_join_groups)
    \o << "*Can Read All Group Messages:* " >>
    \o yesNo(chatInfo.can_read_all_group_messages)
    \o << "*Supports Inline Queries:* " >> \o yesNo(chatInfo.supports_inline_queries)
    \o << "*Online Status:* Online (Bot API response received)" >>

\* the report of a chat
botapi_chatReport(chatInfo, count) ==
  << "*Telegram Entity Status Report*", "*Entity Type:* " >>
    \o escapeMarkdownV2(<< upperChar(Head(chatInfo.type)) >> \o Tail(chatInfo.type))
    \o << "*Title:* " >>
    \o escapeMarkdownV2(orElse(chatInfo.title, orElse(chatInfo.first_name, NOT_AVAILABLE)))
    \o (IF Falsy(chatInfo.username) THEN << >>
        ELSE << "*Username:* [backtick]@" >> \o escapeMarkdownV2(chatInfo.username) \o << "[backtick]" >>)
    \o << "*ID:* [backtick]" >> \o chatInfo.id \o << "[backtick]" >>
    \o (IF chatInfo.type \in { << "c","h","a","n","n","e","l" >>,
                               << "s","u","p","e","r","g","r","o","u","p" >> }
        THEN (IF count.ok THEN << "*Members:* " >> \o count.value
                          ELSE << "*Members:* N/A (Could not retrieve)" >>)
               \o << "*Online Status:* Online (Chat API response received)" >>
               \o << "*Description:* " >>
               \o escapeMarkdownV2(orElse(chatInfo.description, NOT_AVAILABLE))
               \o << "*Invite Link:* " >>
               \o (IF Falsy(chatInfo.invite_link) THEN NOT_AVAILABLE
                   ELSE << "[Click Here](" >> \o escapeMarkdownV2(chatInfo.invite_link)
                          \o << ")" >>)
        ELSE IF chatInfo.type = << "p","r","i","v","a","t","e" >>
             THEN << "*First Name:* " >>
                    \o escapeMarkdownV2(orElse(chatInfo.first_name, NOT_AVAILABLE))
                    \o (IF Falsy(chatInfo.last_name) THEN << >>
                        ELSE << "*Last Name:* " >> \o escapeMarkdownV2(chatInfo.last_name))
                    \o << "*Online Status:* Online (User profile accessible)" >>
             ELSE << >>)

botapi_checkChatStatus(identifier, api) ==
  LET itself ==
        /\ ~api.getChat.ok
        /\ endsWith(identifier, BOT) /\ startsWith(identifier, AT)
        /\ api.getMe.ok
        /\ toLowerCase(AT \o api.getMe.value.username) = toLowerCase(identifier)
  IN  IF api.getChat.ok
      THEN IF Falsy(api.getChat.value.type)
           THEN botapi_catch(identifier, OwnError)  \* chatInfo.type.charAt of undefined
           ELSE Returned(botapi_chatReport(api.getChat.value, api.getChatMembersCount))
      ELSE IF itself
           THEN Returned(botapi_botReport(api.getMe.value))
           ELSE botapi_catch(identifier, api.getChat.error)

CHANNEL_TYPE == << "c","h","a","n","n","e","l" >>
SUPERGROUP_TYPE == << "s","u","p","e","r","g","r","o","u","p" >>
PRIVATE_TYPE == << "p","r","i","v","a","t","e" >>

ChatInfos ==
  { [ type |-> CHANNEL_TYPE, title |-> << "T" >>, first_name |-> << >>,
      last_name |-> << >>, username |-> << "a","_","b" >>, id |-> << "-","1" >>,
      description |-> << "d","." >>, invite_link |-> << "t",".","m","e","/","+","x" >> ],
    [ type |-> SUPERGROUP_TYPE, title |-> << >>, first_name |-> << >>,
      last_name |-> << >>, username |-> << >>, id |-> << "-","2" >>,
      description |-> << >>, invite_link |-> << >> ],
    [ type |-> PRIVATE_TYPE, title |-> << >>, first_name |-> << "A","n","n" >>,
      last_name |-> << "L" >>, username |-> << >>, id |-> << "1" >>,
      description |-> << >>, invite_link |-> << >> ],
    [ type |-> << >>, title |-> << >>, first_name |-> << "A","n","n" >>,
      last_name |-> << >>, username |-> << >>, id |-> << "1" >>,
      description |-> << >>, invite_link |-> << >> ] }

ApiErrors ==
  { [ response |-> FALSE, error_code |-> 0, description |-> << >> ],
    [ response |-> TRUE, error_code |-> API_BAD_REQUEST,
      description |-> << "B","a","d",":"," " >> \o CHAT_NOT_FOUND ],
    [ response |-> TRUE, error_code |-> API_FORBIDDEN,
      description |-> << "F","o","r","b","i","d","d","e","n" >> ],
    [ response |-> TRUE, error_code |-> 429, description |-> << "F","l","o","o","d" >> ],
    [ response |-> TRUE, error_code |-> API_BAD_REQUEST, description |-> << >> ],
    [ response |-> TRUE, error_code |-> 0, description |-> << >> ] }

Ok(v) == [ ok |-> TRUE, value |-> v ]
Failed(e) == [ ok |-> FALSE, error |-> e ]

BotMes ==
  { [ username |-> << "B","o","t" >>, first_name |-> << "M" >>, last_name |-> << >>,
      id |-> << "7" >>, can_join_groups |-> TRUE,
      can_read_all_group_messages |-> FALSE, supports_inline_queries |-> TRUE ],
    [ username |-> << "x","b","o","t" >>, first_name |-> << >>, last_name |-> << "L" >>,
      id |-> << "7" >>, can_join_groups |-> FALSE,
      can_read_all_group_messages |-> FALSE, supports_inline_queries |-> FALSE ] }

ApiOutcomes ==
  [ getChat : { Ok(c) : c \in ChatInfos } \cup { Failed(e) : e \in ApiErrors },
    getMe : { Ok(b) : b \in BotMes } \cup { Failed(e) : e \in { OwnError } },
    getChatMembersCount : { Ok(<< "5" >>), Failed(OwnError) } ]

Identifiers == { AT \o x : x \in ProbeNames } \cup { AT \o BOT }

\* the outcome of a call that was not made
NotCalled == [ ok |-> FALSE, called |-> FALSE ]

\* the Bot API requests a call of checkChatStatus(bot, identifier) makes when
\* its getChat settles as api.getChat
botapi_requests(identifier, api) ==
  << "getChat" >>
    \o (IF ~api.getChat.ok /\ endsWith(identifier, BOT) /\ startsWith(identifier, AT)
        THEN << "getMe" >> ELSE << >>)
    \o (IF api.getChat.ok
           /\ api.getChat.value.type \in { CHANNEL_TYPE, SUPERGROUP_TYPE }
        THEN << "getChatMembersCount" >> ELSE << >>)

\* checkChatStatus(bot, identifier) is called: getChat is requested and the
\* call waits at await bot.getChat(identifier), nothing else requested
BotApiProbe(identifier) ==
  /\ BagCardinality(inflight) < MaxInFlight
  /\ inflight' = inflight (+)
       SetToBag({ [ kind |-> "getChat", subject |-> identifier,
                    requests |-> << "getChat" >>,
                    api |-> [ getChat |-> NotCalled, getMe |-> NotCalled,
                              getChatMembersCount |-> NotCalled ] ] })
  /\ last' = [ event |-> "botApiCalled", subject |-> identifier,
               requests |-> << "getChat" >> ]
  /\ UNCHANGED << sessions, DEFAULT_CHANNEL_CHAT_ID >>

\* the request the waiting call k awaits settles with outcome: the call makes
\* its next request and waits again, or it has none left and returns its
\* result (or its promise is rejected)
BotApiSettled(k, outcome) ==
  LET api == [ k.api EXCEPT ![k.kind] = outcome ]
      all == botapi_requests(k.subject, api)
      made == Len(k.requests)
  IN  /\ IF Len(all) > made
         THEN /\ inflight' = (inflight (-) SetToBag({ k })) (+)
                     SetToBag({ [ k EXCEPT !.kind = all[made + 1],
                                           !.requests = SubSeq(all, 1, made + 1),
                                           !.api = api ] })
              /\ last' = [ event |-> "botApiAwaits", subject |-> k.subject,
                           requests |-> SubSeq(all, 1, made + 1) ]
         ELSE /\ inflight' = inflight (-) SetToBag({ k })
              /\ last' = [ event |-> "botApiProbe", subject |-> k.subject,
                           probe |-> api,
                           result |-> botapi_checkChatStatus(k.subject, api),
                           requests |-> k.requests ]
      /\ UNCHANGED << sessions, DEFAULT_CHANNEL_CHAT_ID >>

\* chatInfo = await bot.getChat(identifier)
GetChatSettled(k, outcome) == k.kind = "getChat" /\ BotApiSettled(k, outcome)

\* const botMe = await bot.getMe()
GetMeSettled(k, outcome) == k.kind = "getMe" /\ BotApiSettled(k, outcome)

\* const memberCount = await bot.getChatMembersCount(identifier)
GetChatMembersCountSettled(k, outcome) ==
  k.kind = "getChatMembersCount" /\ BotApiSettled(k, outcome)

ResolverNext ==
  \/ \E username \in ProbeNames : FetchProbe(username)
  \/ \E k \in BagToSet(inflight) : \E res \in FetchResults : FetchSettled(k, res)
  \/ \E identifier \in Identifiers : BotApiProbe(identifier)
  \/ \E k \in BagToSet(inflight) : \E a \in ApiOutcomes : GetChatSettled(k, a.getChat)
  \/ \E k \in BagToSet(inflight) : \E a \in ApiOutcomes : GetMeSettled(k, a.getMe)
  \/ \E k \in BagToSet(inflight) : \E a \in ApiOutcomes :
        GetChatMembersCountSettled(k, a.getChatMembersCount)

ResolverSpec == ResolverInit /\ [][ResolverNext]_vars

IsFetchProbe == last.event = "fetchProbe"
Answered(status) == last.probe.kind = "response" /\ last.probe.status = status
HasMarker(marker) == includes(last.probe.body, marker)

(***************************************************************************)
(* C18: classification table of the resolver: a probe answered with HTTP   *)
(* 404 yields NotFound; HTTP 200 with a body containing the "contact"      *)
(* marker yields Live; HTTP 200 with a body containing the "can't be       *)
(* displayed" marker yields Restricted; a connection-refused exception     *)
(* yields TransientError.                                                  *)
(***************************************************************************)
C18_ClassificationTable ==
  IsFetchProbe =>
    /\ Answered(HTTP_NOT_FOUND) => Category(last.reply) = "NotFound"
    /\ Answered(HTTP_OK) /\ HasMarker(CONTACT_MARKER) => Category(last.reply) = "Live"
    /\ Answered(HTTP_OK) /\ HasMarker(RESTRICTED_MARKER)
         => Category(last.reply) = "Restricted"
    /\ last.probe.kind = "rejected" /\ last.probe.message = ECONNREFUSED
         => Category(last.reply) = "TransientError"

(***************************************************************************)
(* C19: Unknown is the fallback of the classifier: a response that matches *)
(* none of the specific rules (HTTP 200 whose body has neither marker, or  *)
(* a status code other than 200 and 404) is classified Unknown, never      *)
(* Live or NotFound.                                                       *)
(***************************************************************************)
C19_UnknownFallback ==
  IsFetchProbe /\ last.probe.kind = "response" =>
    /\ Answered(HTTP_OK) /\ ~HasMarker(CONTACT_MARKER) /\ ~HasMarker(RESTRICTED_MARKER)
         => Category(last.reply) = "Unknown"
    /\ last.probe.status \notin { HTTP_OK, HTTP_NOT_FOUND }
         => Category(last.reply) = "Unknown"

(***************************************************************************)
(* C20: the resolver never propagates a fault: whatever exception is       *)
(* raised during a probe, also while the error outcome is built, the       *)
(* resolver returns an error outcome to its caller and does not throw.     *)
(***************************************************************************)
IsErrorOutcome(reply) ==
  reply # << >> /\ reply[1] = "[cross] Failed to retrieve status for [backtick]"

C20_NeverPropagates ==
  /\ IsFetchProbe /\ last.probe.kind = "rejected"
       => Category(last.reply) = "TransientError"
  /\ last.event = "botApiProbe" =>
       /\ ~last.result.threw
       /\ (~last.probe.getChat.ok /\ ~last.probe.getMe.ok
             => IsErrorOutcome(last.result.reply))

(***************************************************************************)
(* The bot with a failing messaging client.  A bot.sendMessage call        *)
(* returns a promise that is rejected when the call fails.  The rejection  *)
(* of an awaited call inside a try block runs the catch block (the         *)
(* GuidedFailed and OnelinerFailed actions); the rejection of a call whose *)
(* promise the callback drops or returns has no handler and surfaces as    *)
(* an unhandledRejection of the process.                                   *)
(***************************************************************************)
SendRejected(i) ==
  /\ last.event # "unhandledRejection"
  /\ i \in DOMAIN last.out
  /\ ~last.out[i].awaited
  /\ last' = [ last EXCEPT !.event = "unhandledRejection", !.out = << last.out[i] >> ]
  /\ UNCHANGED << sessions, DEFAULT_CHANNEL_CHAT_ID, inflight >>

RejectNext ==
  \/ Next
  \/ \E i \in 1..2 : SendRejected(i)

RejectSpec == Init /\ [][RejectNext]_vars

(***************************************************************************)
(* C21: no failure of the messaging client escapes a handler: whichever    *)
(* send call of whichever handler fails, the failure is caught and never   *)
(* becomes an unhandled rejection.                                         *)
(***************************************************************************)
C21_NoSendFailureEscapes == last.event # "unhandledRejection"

(***************************************************************************)
(* The check commands of both bots with both users: the probe of the       *)
(* monitor variant (src/unnamed/part_002) stays in flight while the Bot    *)
(* API answers, and other updates are processed in the meantime.           *)
(***************************************************************************)
TXT_check_bad == << "/","c","h","e","c","k"," ","a"," ","b" >>

TXT_check_help ==
  << "/","c","h","e","c","k"," ","@","f","o","o"," ","/","h","e","l","p" >>

ProbeTexts == { TXT_check, TXT_check_bad, TXT_check_help, TXT_hi, TXT_start, TXT_spam }

ProbeNext ==
  \/ \E u \in Users : \E t \in ProbeTexts : MonitorReceive(u, t)
  \/ \E k \in BagToSet(inflight) : MonitorPlaceholderSent(k)
  \/ \E k \in BagToSet(inflight) : MonitorPlaceholderRejected(k)
  \/ \E k \in BagToSet(inflight) :
       \E tag \in { "check_result", "check_error" } : MonitorProbeSettled(k, tag)
  \/ \E k \in BagToSet(inflight) : \E ok \in BOOLEAN : MonitorEditSettled(k, ok)
  \/ \E u \in Users : \E t \in ProbeTexts : Receive(u, t)
  \/ \E k \in BagToSet(inflight) : CheckResolved(k)

ProbeSpec == Init /\ [][ProbeNext]_vars

ProbeKinds == { "check", "monitor_placeholder", "monitor_probe" }

\* a probe of a sender other than u that was in flight before the latest turn
\* and still is
OtherProbeInFlight(u) ==
  \E k \in BagToSet(inflight) :
    /\ k.kind \in ProbeKinds /\ k.userId # u
    /\ CopiesIn(k, inflight) > CopiesIn(k, last.spawned)

(***************************************************************************)
(* C22: probes do not block the dispatcher and results go to the           *)
(* requester: a message that arrives while another sender's probe is in    *)
(* flight is handled in its own turn, any reply going to its sender while  *)
(* the probe stays in flight; and the result of a probe is delivered to    *)
(* the chat of the sender who issued that check and to no other.           *)
(***************************************************************************)
C22_ProbesDoNotBlock ==
  /\ last.event \in { "message", "monitorMessage" } /\ OtherProbeInFlight(Sender) =>
       /\ last.fired # {}
       /\ \A i \in DOMAIN last.out : last.out[i].to = last.msg.chat
  /\ last.event \in { "checkResolved", "monitorProbeSettled" } =>
       /\ last.out # << >>
       /\ \A i \in DOMAIN last.out : last.out[i].to = last.cont.userId
  /\ last.event = "monitorEditSettled" =>
       \A i \in DOMAIN last.out : last.out[i].to = last.cont.userId

\* the probe of user 1 settles and is answered while the probe that user 2
\* issued later is still in flight
C22_Witness ==
  /\ last.event = "monitorProbeSettled" /\ last.cont.userId = << "1" >>
  /\ last.out[1].to = << "1" >>
  /\ \E k \in BagToSet(inflight) : k.kind = "monitor_probe" /\ k.userId = << "2" >>

(***************************************************************************)
(* C23: each accepted check performs exactly one external probe: one       *)
(* request leaves the resolver per invocation, and a failed request is     *)
(* followed by no further request in the same invocation.                  *)
(***************************************************************************)
C23_ExactlyOneProbe ==
  last.event \in { "fetchProbe", "botApiProbe" } => Len(last.requests) = 1

(***************************************************************************)
(* C24: the composer renders all four fields of a report: the text handed  *)
(* to the messaging client for a composed report contains its target chat, *)
(* its link, its reason and the name of its reporter.                      *)
(***************************************************************************)
RendersIn(body, report) ==
  /\ includes(body, report.chatId)
  /\ includes(body, report.link)
  /\ includes(body, report.reason)
  /\ includes(body, report.reporterName)

C24_AllFourFieldsRendered ==
  IsMessageTurn =>
    \A i \in DOMAIN last.composed :
      \E j \in DOMAIN last.out :
        last.out[j].tag = "report" /\ RendersIn(last.out[j].body, last.composed[i])

(***************************************************************************)
(* The second composer, generateReport(session) of src/unnamed/part_000.   *)
(* Its template has no indentation, so the two composers give different    *)
(* texts for one report.  Like generateReport of src/utils/reporter.js it  *)
(* is a template literal over the fields of its argument: it reads no      *)
(* variable of its module and assigns nothing, which is why both are       *)
(* operators of their argument alone here.  That two compositions of one   *)
(* report give one text, and that composing changes no session (C25), is   *)
(* then a fact about operators and not a property of the behaviours.       *)
(***************************************************************************)
part000_generateReport(session) ==
  << "Report Sent! Details:", "- Chat ID: " >> \o session.chatId
    \o << "- Link: " >> \o session.link
    \o << "- Reason: " >> \o session.reason

(***************************************************************************)
(* C26: at most one report per guided session: a free-text message of a    *)
(* sender whose completion is still awaiting its delivery, and whose       *)
(* session holds the reason of that completion, sends no second report and *)
(* leaves the stored reason as it is.                                      *)
(***************************************************************************)
\* u has a completion suspended at its delivery when the turn begins
DeliveryPending(u) ==
  \E k \in BagToSet(inflight (-) last.spawned) : k.kind = "guided" /\ k.userId = u

C26_OneReportPerSession ==
  ( /\ IsMessageTurn /\ IsFreeText(Text)
    /\ DeliveryPending(Sender)
    /\ Sender \in DOMAIN last.pre
    /\ "reason" \in DOMAIN last.pre[Sender] )
  => /\ ~ReportSent
     /\ Sender \in DOMAIN sessions
     /\ sessions[Sender].reason = last.pre[Sender].reason

(***************************************************************************)
(* C27: the cleanup of a completion removes only the session it completed: *)
(* a session that a bare report command created while the delivery of an   *)
(* earlier completion of the same sender was in flight still exists when   *)
(* that completion finishes.                                               *)
(***************************************************************************)
GuidedFinished ==
  last.event \in { "guidedDelivered", "guidedFailed" }

C27_CleanupOwnSessionOnly ==
  ( /\ GuidedFinished
    /\ last.cont.userId \in DOMAIN last.pre
    /\ last.pre[last.cont.userId] = FreshSession )
  => last.cont.userId \in DOMAIN sessions

(***************************************************************************)
(* C28: step domain.  Every stored session is in one of the two steps of   *)
(* the dispatcher, so the continuation handler never reads the initial     *)
(* step that startSession writes and never takes its default branch.       *)
(***************************************************************************)
C28_StepDomain ==
  /\ \A u \in DOMAIN sessions : sessions[u].step \in { AwaitingLink, AwaitingReason }
  /\ "unknown_step" \notin Tags

\* the continuation handler read a session that a bare report command had
\* just created
C28_Witness ==
  /\ IsMessageTurn
  /\ "session" \in last.fired
  /\ Sender \in DOMAIN last.pre
  /\ last.pre[Sender] = FreshSession
  /\ "ask_reason" \in Tags

(***************************************************************************)
(* C29: fields and step agree.  A session awaiting its link has neither a  *)
(* link nor a reason; a session awaiting its reason has a link; a session  *)
(* holds a reason only while a completion of its owner is in progress.     *)
(***************************************************************************)
Completing(u) ==
  \E k \in BagToSet(inflight) : k.kind = "guided" /\ k.userId = u

C29_FieldsMatchStep ==
  \A u \in DOMAIN sessions :
    /\ sessions[u].step = AwaitingLink =>
         "link" \notin DOMAIN sessions[u] /\ "reason" \notin DOMAIN sessions[u]
    /\ sessions[u].step = AwaitingReason => "link" \in DOMAIN sessions[u]
    /\ "reason" \in DOMAIN sessions[u] => Completing(u)

\* one session awaits its reason while another holds the reason of the
\* completion in progress
C29_Witness ==
  \E u, v \in DOMAIN sessions :
    /\ sessions[u].step = AwaitingReason /\ "reason" \notin DOMAIN sessions[u]
    /\ "reason" \in DOMAIN sessions[v] /\ Completing(v)

(***************************************************************************)
(* C30: per-owner isolation.  Handling a message of one sender, whatever   *)
(* its text and whatever the state of the sender's session, leaves the     *)
(* session of every other user as it was: present with the same            *)
(* properties, or absent; so does the rest of a handler that resumes after *)
(* its await, for every user other than the sender it was started for.     *)
(***************************************************************************)
C30_OwnerIsolation ==
  /\ IsMessageTurn =>
       \A u \in Users \ {Sender} : getSession(sessions, u) = getSession(last.pre, u)
  /\ last.event \notin { "none", "message" } =>
       \A u \in Users \ {last.cont.userId} :
         getSession(sessions, u) = getSession(last.pre, u)

\* a message changed its sender's session while another user had one
C30_Witness ==
  /\ IsMessageTurn
  /\ getSession(sessions, Sender) # getSession(last.pre, Sender)
  /\ \E u \in Users \ {Sender} : u \in DOMAIN sessions /\ "link" \in DOMAIN sessions[u]

(***************************************************************************)
(* C31: unconfigured target in the guided workflow.  A non-empty reason    *)
(* received in AwaitingReason, when no default channel is configured,      *)
(* delivers no report, sends the sender an explanatory message and ends    *)
(* the session; when a default channel is configured, the guided report    *)
(* goes to that channel and never to the reported link.                    *)
(***************************************************************************)
\* the latest turn handled a non-empty reason of a sender in AwaitingReason
ReasonGiven ==
  /\ IsMessageTurn /\ IsFreeText(Text) /\ ~Falsy(trim(Text))
  /\ StepIn(last.pre, Sender) = AwaitingReason

\* the chats the reports of the latest turn were handed to
ReportTargets == { last.out[i].to : i \in { j \in DOMAIN last.out : last.out[j].tag = "report" } }

C31_UnconfiguredTarget ==
  ReasonGiven =>
    IF Falsy(DEFAULT_CHANNEL_CHAT_ID)
    THEN /\ ~ReportSent
         /\ \E i \in DOMAIN last.out :
              last.out[i].tag = "no_default_channel" /\ last.out[i].to = last.msg.chat
         /\ Sender \notin DOMAIN sessions
    ELSE /\ ReportTargets = { DEFAULT_CHANNEL_CHAT_ID }
         /\ last.pre[Sender].link \notin ReportTargets

(***************************************************************************)
(* One-shot workbench: the report command with an inline payload, for      *)
(* every payload made of a first token and a tail, with and without a      *)
(* default channel; each delivery then resolves or fails.                  *)
(***************************************************************************)
FirstTokens ==
  { << "@","c" >>, << "@" >>, << "@","d","7" >>, << "-","5" >>, << "7" >>, << "1","2" >>,
    << "-" >>, << "7","x" >>, << "x" >> }

PayloadTails ==
  { << >>, << " " >>, << " ","s" >>, << " "," ","s" >>, << " ","a"," ","b" >>,
    << " ","/","c","a","n","c","e","l" >> }

Payloads == { f \o r : f \in FirstTokens, r \in PayloadTails }

OneShotTexts == { CMD_REPORT \o << " " >> \o p : p \in Payloads }

OneShotNext ==
  \/ \E t \in OneShotTexts : Idle /\ Receive(Tester, t)
  \/ \E k \in BagToSet(inflight) : OnelinerDelivered(k)
  \/ \E k \in BagToSet(inflight) : OnelinerFailed(k)

OneShotSpec == Init /\ [][OneShotNext]_vars

\* the inline payload of the latest message, without its outer blanks
Payload == trim(substring(Text, Len(CMD_REPORT) + 1))

\* the position of the first blank of p, Len(p) + 1 when it has none
FirstBlank(p) ==
  CHOOSE i \in 1..(Len(p) + 1) :
    /\ \A j \in 1..(i - 1) : p[j] # " "
    /\ i <= Len(p) => p[i] = " "

FirstToken(p) == SubSeq(p, 1, FirstBlank(p) - 1)

AfterFirstToken(p) == SubSeq(p, FirstBlank(p) + 1, Len(p))

\* more than one token, the first a mention or an integer
NamesTarget(p) ==
  /\ \E i \in DOMAIN p : p[i] = " "
  /\ \/ (Len(FirstToken(p)) > 0 /\ FirstToken(p)[1] = "@")
     \/ matchesInteger(FirstToken(p))

DeliveredAs(target, reason) ==
  /\ ReportTargets = { target }
  /\ Len(last.composed) = 1
  /\ last.composed[1].chatId = target
  /\ last.composed[1].reason = reason

(***************************************************************************)
(* C32: target selection of the one-shot report.  A payload of more than   *)
(* one token whose first token is a mention or an integer is delivered to  *)
(* that token with the rest as the reason; any other payload is delivered  *)
(* to the default channel with the whole payload as the reason; nothing is *)
(* delivered with a blank reason or without a target.                      *)
(***************************************************************************)
C32_OneShotTarget ==
  (IsMessageTurn /\ Text \in OneShotTexts) =>
    /\ IF NamesTarget(Payload)
       THEN DeliveredAs(FirstToken(Payload), AfterFirstToken(Payload))
       ELSE IF ~Falsy(DEFAULT_CHANNEL_CHAT_ID)
       THEN DeliveredAs(DEFAULT_CHANNEL_CHAT_ID, Payload)
       ELSE ~ReportSent /\ last.composed = << >>
    /\ \A i \in DOMAIN last.composed : ~Falsy(trim(last.composed[i].reason))
    /\ << >> \notin ReportTargets

\* an integer first token was taken as the target of the delivery
C32_Witness ==
  /\ IsMessageTurn /\ Text \in OneShotTexts
  /\ FirstToken(Payload) = << "-","5" >>
  /\ ReportTargets = { << "-","5" >> }
  /\ Falsy(DEFAULT_CHANNEL_CHAT_ID)

(***************************************************************************)
(* The two session stores side by side: every call is made on the Map of   *)
(* src/utils/sessions.js, held in sessions, and on the plain object of     *)
(* src/unnamed/part_001, held in last.object.  getSession hands out the    *)
(* stored object itself, and last.got is what the caller of the latest     *)
(* getSession holds from each store, as it is now.  The Map never changes  *)
(* an object it has stored (updateSession stores a new one), so what it    *)
(* handed out stays as it was.  The plain object merges into the stored    *)
(* object in place, so what it handed out changes with every later update  *)
(* of that owner, until startSession replaces the stored object or         *)
(* endSession deletes it; last.alias is the owner whose stored object the  *)
(* caller holds, NoOwner when it holds none or one no longer stored.       *)
(***************************************************************************)
NoOwner == << >>

PairInit ==
  /\ sessions = << >>
  /\ DEFAULT_CHANNEL_CHAT_ID = << >>
  /\ inflight = EmptyBag
  /\ last = [ event |-> "none", owner |-> NoOwner, object |-> << >>,
              got |-> [ Map |-> UNDEFINED, object |-> UNDEFINED ],
              alias |-> NoOwner ]

\* what the caller holds from the plain object after the call on u left the
\* store as O: return sessions[chatId] hands out the stored object, and
\* Object.assign(sessions[chatId], data) changes it where the caller sees it
heldObject(event, u, O) ==
  IF event = "get" THEN getSession(O, u)
  ELSE IF event = "update" /\ last.alias = u THEN O[u]
  ELSE last.got.object

\* the owner whose stored object the caller holds after the call on u
heldAlias(event, u, O) ==
  IF event = "get" THEN (IF u \in DOMAIN O THEN u ELSE NoOwner)
  ELSE IF event \in { "start", "end" } /\ last.alias = u THEN NoOwner
  ELSE last.alias

PairOp(event, u, S, O) ==
  /\ sessions' = S
  /\ last' = [ event |-> event, owner |-> u, object |-> O,
               got |-> [ Map |-> IF event = "get" THEN getSession(S, u)
                                 ELSE last.got.Map,
                         object |-> heldObject(event, u, O) ],
               alias |-> heldAlias(event, u, O) ]
  /\ UNCHANGED << DEFAULT_CHANNEL_CHAT_ID, inflight >>

PairStart(u) ==
  PairOp("start", u, startSession(sessions, u), plain_startSession(last.object, u))

PairUpdate(u, data) ==
  PairOp("update", u, updateSession(sessions, u, data),
         plain_updateSession(last.object, u, data))

PairGet(u) == PairOp("get", u, sessions, last.object)

PairEnd(u) ==
  PairOp("end", u, endSession(sessions, u), plain_endSession(last.object, u))

PairNext ==
  \/ \E u \in Users : PairStart(u)
  \/ \E u \in Users : \E data \in PartialFields : PairUpdate(u, data)
  \/ \E u \in Users : PairGet(u)
  \/ \E u \in Users : PairEnd(u)

PairSpec == PairInit /\ [][PairNext]_vars

(***************************************************************************)
(* C33: the two stores are observationally equivalent: after every         *)
(* sequence of start, update, get and end calls, what get returned from    *)
(* one store has the same fields and values as what it returned from the   *)
(* other, or it returned nothing from both.                                *)
(***************************************************************************)
C33_StoresEquivalent == last.got.Map = last.got.object

====
